---- MODULE Spec2Model ----
(***************************************************************************)
(* A model of src/worm.py: the worm game's level state (start_level,       *)
(* handle_direction_change, move_snake, random_food) and the frame loop of *)
(* run_game that drives it.                                                *)
(*                                                                         *)
(* Cells are <<row, col>> pairs; the worm is a sequence of cells, tail     *)
(* first and head last, as the deque of the source.  random.choice is a    *)
(* nondeterministic choice among the available cells, so random_food,      *)
(* start_level and move_snake denote the SET of values a call may yield.   *)
(*                                                                         *)
(* Scaling.  The window is GridCols x GridRows cells instead of 48 x 32;   *)
(* every other number is the source's.  A game explores at most            *)
(* MaxIdleTicks moves that eat nothing and at most MaxLevel levels.  The   *)
(* player picks the starting speed on the first visit of the menu and      *)
(* starts games at the speeds of StartSpeeds; frames last one of DtSet     *)
(* milliseconds.                                                           *)
(*                                                                         *)
(* Time.  move_interval_ms = 1000.0 / speed and move_accumulator are       *)
(* floats in the source; the model keeps both exact, as integers counted   *)
(* in units of 1/speed ms (interval = 1000, a frame adds dt * speed).      *)
(***************************************************************************)
EXTENDS Integers, Sequences, FiniteSets, TLC

\* ---------------------------------------------------------------- bounds
GridCols == 6
GridRows == 4
MaxLevel == 2
MaxIdleTicks == 3
MaxLevelIndex == 20

\* ------------------------------------------------------------- constants
CELL_SIZE == 20
WINDOW_WIDTH == GridCols * CELL_SIZE
WINDOW_HEIGHT == GridRows * CELL_SIZE
GRID_WIDTH == WINDOW_WIDTH \div CELL_SIZE
GRID_HEIGHT == WINDOW_HEIGHT \div CELL_SIZE

SPEED_MIN == 1
SPEED_MAX == 100
DEFAULT_SPEED == 20
LEVEL_SPEED_STEP == 5
BASE_TARGET == 6
TARGET_GROWTH == 2
WormLength == 5
MsPerSecond == 1000

ArrowKeys == {"K_UP", "K_DOWN", "K_LEFT", "K_RIGHT"}
Keys == ArrowKeys \cup {"K_RETURN", "K_SPACE", "K_ESCAPE", "K_q", "K_a"}

VECTORS ==
  [k \in ArrowKeys |->
     CASE k = "K_UP" -> <<-1, 0>>
       [] k = "K_DOWN" -> <<1, 0>>
       [] k = "K_LEFT" -> <<0, -1>>
       [] k = "K_RIGHT" -> <<0, 1>>]

NoFood == <<-1, -1>>
None == [none |-> TRUE]

\* Inputs: the frame times clock.tick(60) returns, and the speeds games start at.
DtSet == {25, 100}
StartSpeeds == {DEFAULT_SPEED, SPEED_MAX}

Min(a, b) == IF a <= b THEN a ELSE b
Max(a, b) == IF a >= b THEN a ELSE b

Cells(snake) == {snake[i] : i \in 1..Len(snake)}

\* ------------------------------------------------------- level functions
initialize_worm(length) ==
  LET center_y == GRID_HEIGHT \div 2
      center_x == GRID_WIDTH \div 2
      start_x == Max(1, center_x - length \div 2)
  IN [i \in 1..length |-> <<center_y, start_x + (i - 1)>>]

\* Variant: the border row and column are not reserved.
available_positions_with_border(occupied) ==
  {p \in (0..(GRID_HEIGHT - 1)) \X (0..(GRID_WIDTH - 1)) : p \notin occupied}

available_positions(occupied) ==
  {p \in (1..(GRID_HEIGHT - 2)) \X (1..(GRID_WIDTH - 2)) : p \notin occupied}

\* The values random_food may return.
random_food(occupied) ==
  IF available_positions(occupied) = {}
    THEN {NoFood}
    ELSE available_positions(occupied)

opposite_direction(current, candidate) ==
  current[1] = -candidate[1] /\ current[2] = -candidate[2]

\* Variant: the speed is not clamped to SPEED_MAX.
level_speed_unclamped(level, base_speed) ==
  base_speed + (level - 1) * LEVEL_SPEED_STEP

\* Variant: the level index does not raise the speed.
level_speed_flat(level, base_speed) ==
  Min(SPEED_MAX, base_speed)

level_speed(level, base_speed) ==
  Min(SPEED_MAX, base_speed + (level - 1) * LEVEL_SPEED_STEP)

level_target(level) == BASE_TARGET + (level - 1) * TARGET_GROWTH

\* The LevelStates start_level may return, one per choice of the food.
start_level(level, base_speed) ==
  LET snake == initialize_worm(WormLength)
      direction == <<0, 1>>
  IN {[snake |-> snake,
       direction |-> direction,
       pending_direction |-> direction,
       food |-> f,
       eaten |-> 0,
       target |-> level_target(level),
       speed |-> level_speed(level, base_speed),
       move_interval_ms |-> MsPerSecond,
       move_accumulator |-> 0] : f \in random_food(Cells(snake))}

\* Variant: the reversal test is made against the pending direction.
handle_direction_change_against_pending(level, key) ==
  IF key \notin ArrowKeys
    THEN level
    ELSE IF ~opposite_direction(level.pending_direction, VECTORS[key])
           THEN [level EXCEPT !.pending_direction = VECTORS[key]]
           ELSE level

\* The LevelState handle_direction_change leaves.
handle_direction_change(level, key) ==
  IF key \notin ArrowKeys
    THEN level
    ELSE IF ~opposite_direction(level.direction, VECTORS[key])
           THEN [level EXCEPT !.pending_direction = VECTORS[key]]
           ELSE level

new_head(level) ==
  <<level.snake[Len(level.snake)][1] + level.pending_direction[1],
    level.snake[Len(level.snake)][2] + level.pending_direction[2]>>

\* Variant: the far walls are one cell too far.
wall_collision_off_by_one(p) ==
  p[1] < 0 \/ p[1] > GRID_HEIGHT \/ p[2] < 0 \/ p[2] > GRID_WIDTH

\* Variant: the grid has no right wall.
wall_collision_no_right_wall(p) ==
  p[1] < 0 \/ p[1] >= GRID_HEIGHT \/ p[2] < 0

wall_collision(p) ==
  p[1] < 0 \/ p[1] >= GRID_HEIGHT \/ p[2] < 0 \/ p[2] >= GRID_WIDTH

\* Variant: no self-collision test.
self_collision_skipped(level, p) == FALSE

\* Variant: the tail cell, vacated by the move, does not count.
self_collision_without_tail(level, p) == p \in Cells(Tail(level.snake))

self_collision(level, p) == p \in Cells(level.snake)

\* Variant: the tail is removed on every move, also when the worm eats.
move_snake_always_pops(level) ==
  LET nh == <<level.snake[Len(level.snake)][1] + level.pending_direction[1],
              level.snake[Len(level.snake)][2] + level.pending_direction[2]>>
      grown == Append(level.snake, nh)
  IN IF nh[1] < 0 \/ nh[1] >= GRID_HEIGHT \/ nh[2] < 0 \/ nh[2] >= GRID_WIDTH
          \/ nh \in Cells(level.snake)
       THEN {[level |-> level, alive |-> FALSE, ate_food |-> FALSE]}
     ELSE IF nh = level.food
       THEN {[level |-> [level EXCEPT !.snake = Tail(grown),
                                      !.eaten = level.eaten + 1,
                                      !.food = f,
                                      !.direction = level.pending_direction],
              alive |-> TRUE, ate_food |-> TRUE] :
               f \in {q \in (1..(GRID_HEIGHT - 2)) \X (1..(GRID_WIDTH - 2)) :
                        q \notin Cells(Tail(grown))}}
     ELSE {[level |-> [level EXCEPT !.snake = Tail(grown),
                                    !.direction = level.pending_direction],
            alive |-> TRUE, ate_food |-> FALSE]}

\* Variant: the new food is drawn before the head is appended.
move_snake_food_before_append(level) ==
  LET nh == <<level.snake[Len(level.snake)][1] + level.pending_direction[1],
              level.snake[Len(level.snake)][2] + level.pending_direction[2]>>
      grown == Append(level.snake, nh)
  IN IF nh[1] < 0 \/ nh[1] >= GRID_HEIGHT \/ nh[2] < 0 \/ nh[2] >= GRID_WIDTH
          \/ nh \in Cells(level.snake)
       THEN {[level |-> level, alive |-> FALSE, ate_food |-> FALSE]}
     ELSE IF nh = level.food
       THEN {[level |-> [level EXCEPT !.snake = grown,
                                      !.eaten = level.eaten + 1,
                                      !.food = f,
                                      !.direction = level.pending_direction],
              alive |-> TRUE, ate_food |-> TRUE] :
               f \in {q \in (1..(GRID_HEIGHT - 2)) \X (1..(GRID_WIDTH - 2)) :
                        q \notin Cells(level.snake)}}
     ELSE {[level |-> [level EXCEPT !.snake = Tail(grown),
                                    !.direction = level.pending_direction],
            alive |-> TRUE, ate_food |-> FALSE]}

\* Variant: the pending direction is committed before the collision tests.
move_snake_commits_direction_first(level) ==
  LET nh == <<level.snake[Len(level.snake)][1] + level.pending_direction[1],
              level.snake[Len(level.snake)][2] + level.pending_direction[2]>>
      grown == Append(level.snake, nh)
      turned == [level EXCEPT !.direction = level.pending_direction]
  IN IF nh[1] < 0 \/ nh[1] >= GRID_HEIGHT \/ nh[2] < 0 \/ nh[2] >= GRID_WIDTH
          \/ nh \in Cells(level.snake)
       THEN {[level |-> turned, alive |-> FALSE, ate_food |-> FALSE]}
     ELSE IF nh = level.food
       THEN {[level |-> [turned EXCEPT !.snake = grown,
                                       !.eaten = level.eaten + 1,
                                       !.food = f],
              alive |-> TRUE, ate_food |-> TRUE] :
               f \in random_food(Cells(grown))}
     ELSE {[level |-> [turned EXCEPT !.snake = Tail(grown)],
            alive |-> TRUE, ate_food |-> FALSE]}

\* The outcomes of move_snake: the LevelState it leaves and the pair
\* (alive, ate_food) it returns.
move_snake(level) ==
  LET nh == new_head(level)
      grown == Append(level.snake, nh)
  IN IF wall_collision(nh)
       THEN {[level |-> level, alive |-> FALSE, ate_food |-> FALSE]}
     ELSE IF self_collision(level, nh)
       THEN {[level |-> level, alive |-> FALSE, ate_food |-> FALSE]}
     ELSE IF nh = level.food
       THEN {[level |-> [level EXCEPT !.snake = grown,
                                      !.eaten = level.eaten + 1,
                                      !.food = f,
                                      !.direction = level.pending_direction],
              alive |-> TRUE, ate_food |-> TRUE] : f \in random_food(Cells(grown))}
     ELSE {[level |-> [level EXCEPT !.snake = Tail(grown),
                                    !.direction = level.pending_direction],
            alive |-> TRUE, ate_food |-> FALSE]}

\* Variant: an exhausted board does not complete the level.
tick_outcome_ignoring_full_board(alive, level) ==
  IF ~alive
    THEN "game_over"
    ELSE IF level.eaten >= level.target
           THEN "level_complete"
           ELSE "playing"

\* Variant: the level completes only past the target.
tick_outcome_past_target(alive, level) ==
  IF ~alive
    THEN "game_over"
    ELSE IF level.eaten > level.target \/ level.food = NoFood
           THEN "level_complete"
           ELSE "playing"

\* The game state one iteration of the catch-up loop leaves.
tick_outcome(alive, level) ==
  IF ~alive
    THEN "game_over"
    ELSE IF level.eaten >= level.target \/ level.food = NoFood
           THEN "level_complete"
           ELSE "playing"

\* ------------------------------------------------------------ the program
\* running .. level_state are the locals of run_game; pc is its position in
\* the frame ("events": draining the event queue, "update": in the catch-up
\* loop, "done": after pygame.quit).  ret is what the last move_snake call
\* on the current LevelState returned; idle_ticks counts the moves of the
\* current game that ate nothing; call holds the arguments and the result
\* of a single function call in the specifications of one function.
VARIABLES running, state, chosen_speed, level_number, total_score,
          level_state, pc, ret, idle_ticks, call

gamevars == <<running, state, chosen_speed, level_number, total_score,
              level_state, pc, ret, idle_ticks>>

vars == <<gamevars, call>>

NoRet == [called |-> FALSE, alive |-> FALSE, ate_food |-> FALSE]
NoCall == [fn |-> "none"]

InitGame ==
  /\ running = TRUE
  /\ state = "menu"
  /\ chosen_speed = DEFAULT_SPEED
  /\ level_number = 1
  /\ total_score = 0
  /\ level_state = None
  /\ pc = "events"
  /\ ret = NoRet
  /\ idle_ticks = 0

Init == InitGame /\ call = NoCall

\* pygame.QUIT in the event queue.
Quit ==
  /\ pc = "events"
  /\ running' = FALSE
  /\ UNCHANGED <<state, chosen_speed, level_number, total_score, level_state,
                 pc, ret, idle_ticks, call>>

\* Variant: the lower clamp of the starting speed is 0 instead of SPEED_MIN.
MenuKey_clamped_at_zero(key) ==
  /\ pc = "events"
  /\ state = "menu"
  /\ IF key \in {"K_LEFT", "K_DOWN"}
       THEN /\ level_state = None
            /\ chosen_speed' = Max(0, chosen_speed - 1)
            /\ UNCHANGED <<state, level_number, total_score, level_state,
                           idle_ticks, ret>>
     ELSE IF key \in {"K_RIGHT", "K_UP"}
       THEN /\ level_state = None
            /\ chosen_speed' = Min(SPEED_MAX, chosen_speed + 1)
            /\ UNCHANGED <<state, level_number, total_score, level_state,
                           idle_ticks, ret>>
     ELSE IF key \in {"K_RETURN", "K_SPACE"}
       THEN /\ chosen_speed \in StartSpeeds
            /\ level_number' = 1
            /\ total_score' = 0
            /\ level_state' \in start_level(1, chosen_speed)
            /\ state' = "playing"
            /\ idle_ticks' = 0
            /\ ret' = NoRet
            /\ UNCHANGED chosen_speed
     ELSE UNCHANGED <<state, chosen_speed, level_number, total_score,
                      level_state, idle_ticks, ret>>
  /\ UNCHANGED <<running, pc, call>>

MenuKey(key) ==
  /\ pc = "events"
  /\ state = "menu"
  /\ IF key \in {"K_LEFT", "K_DOWN"}
       THEN /\ level_state = None
            /\ chosen_speed' = Max(SPEED_MIN, chosen_speed - 1)
            /\ UNCHANGED <<state, level_number, total_score, level_state,
                           idle_ticks, ret>>
     ELSE IF key \in {"K_RIGHT", "K_UP"}
       THEN /\ level_state = None
            /\ chosen_speed' = Min(SPEED_MAX, chosen_speed + 1)
            /\ UNCHANGED <<state, level_number, total_score, level_state,
                           idle_ticks, ret>>
     ELSE IF key \in {"K_RETURN", "K_SPACE"}
       THEN /\ chosen_speed \in StartSpeeds
            /\ level_number' = 1
            /\ total_score' = 0
            /\ level_state' \in start_level(1, chosen_speed)
            /\ state' = "playing"
            /\ idle_ticks' = 0
            /\ ret' = NoRet
            /\ UNCHANGED chosen_speed
     ELSE UNCHANGED <<state, chosen_speed, level_number, total_score,
                      level_state, idle_ticks, ret>>
  /\ UNCHANGED <<running, pc, call>>

\* Variant: Q leaves the level for the menu as Escape does.
PlayingKey_q_cancels(key) ==
  /\ pc = "events"
  /\ state = "playing"
  /\ IF key \in {"K_ESCAPE", "K_q"}
       THEN /\ state' = "menu"
            /\ UNCHANGED level_state
       ELSE /\ level_state' = handle_direction_change(level_state, key)
            /\ UNCHANGED state
  /\ UNCHANGED <<running, chosen_speed, level_number, total_score, pc, ret,
                 idle_ticks, call>>

PlayingKey(key) ==
  /\ pc = "events"
  /\ state = "playing"
  /\ IF key = "K_ESCAPE"
       THEN /\ state' = "menu"
            /\ UNCHANGED level_state
       ELSE /\ level_state' = handle_direction_change(level_state, key)
            /\ UNCHANGED state
  /\ UNCHANGED <<running, chosen_speed, level_number, total_score, pc, ret,
                 idle_ticks, call>>

\* Variant: Escape continues to the next level as well.
LevelCompleteKey_escape_continues(key) ==
  /\ pc = "events"
  /\ state = "level_complete"
  /\ IF key \in {"K_RETURN", "K_SPACE", "K_ESCAPE"}
       THEN /\ level_number < MaxLevel
            /\ level_number' = level_number + 1
            /\ level_state' \in start_level(level_number + 1, chosen_speed)
            /\ state' = "playing"
            /\ ret' = NoRet
       ELSE UNCHANGED <<state, level_number, level_state, ret>>
  /\ UNCHANGED <<running, chosen_speed, total_score, pc, idle_ticks, call>>

LevelCompleteKey(key) ==
  /\ pc = "events"
  /\ state = "level_complete"
  /\ IF key \in {"K_RETURN", "K_SPACE"}
       THEN /\ level_number < MaxLevel
            /\ level_number' = level_number + 1
            /\ level_state' \in start_level(level_number + 1, chosen_speed)
            /\ state' = "playing"
            /\ ret' = NoRet
       ELSE UNCHANGED <<state, level_number, level_state, ret>>
  /\ UNCHANGED <<running, chosen_speed, total_score, pc, idle_ticks, call>>

GameOverKey(key) ==
  /\ pc = "events"
  /\ state = "game_over"
  /\ IF key \in {"K_RETURN", "K_SPACE"}
       THEN /\ state' = "menu"
            /\ UNCHANGED running
     ELSE IF key \in {"K_q", "K_ESCAPE"}
       THEN /\ running' = FALSE
            /\ UNCHANGED state
     ELSE UNCHANGED <<state, running>>
  /\ UNCHANGED <<chosen_speed, level_number, total_score, level_state, pc,
                 ret, idle_ticks, call>>

\* The event queue is drained; the update of the frame begins with
\* dt = clock.tick(60) added to the accumulator.
BeginUpdate(dt) ==
  /\ pc = "events"
  /\ pc' = "update"
  /\ IF state = "playing" /\ level_state # None
       THEN level_state' = [level_state EXCEPT
                              !.move_accumulator = level_state.move_accumulator
                                                     + dt * level_state.speed]
       ELSE UNCHANGED level_state
  /\ UNCHANGED <<running, state, chosen_speed, level_number, total_score, ret,
                 idle_ticks, call>>

\* Variant: the catch-up loop does not test the game state.
CanTick_in_any_state ==
  /\ level_state # None
  /\ level_state.move_accumulator >= level_state.move_interval_ms

\* Variant: the catch-up loop needs more than one whole interval.
CanTick_strictly_more ==
  /\ state = "playing"
  /\ level_state # None
  /\ level_state.move_accumulator > level_state.move_interval_ms

\* The condition of the catch-up loop.
CanTick ==
  /\ state = "playing"
  /\ level_state # None
  /\ level_state.move_accumulator >= level_state.move_interval_ms

\* One iteration of the catch-up loop.
Tick ==
  /\ pc = "update"
  /\ CanTick
  /\ \E r \in move_snake([level_state EXCEPT
                            !.move_accumulator = level_state.move_accumulator
                                                   - level_state.move_interval_ms]) :
       /\ r.ate_food \/ ~r.alive \/ idle_ticks < MaxIdleTicks
       /\ idle_ticks' = IF r.alive /\ ~r.ate_food THEN idle_ticks + 1 ELSE idle_ticks
       /\ level_state' = r.level
       /\ ret' = [called |-> TRUE, alive |-> r.alive, ate_food |-> r.ate_food]
       /\ total_score' = IF r.alive /\ r.ate_food THEN total_score + 1 ELSE total_score
       /\ state' = tick_outcome(r.alive, r.level)
  /\ UNCHANGED <<running, chosen_speed, level_number, pc, call>>

\* The loop is left, the frame is drawn, and run_game tests `running`.
EndUpdate ==
  /\ pc = "update"
  /\ ~CanTick
  /\ pc' = IF running THEN "events" ELSE "done"
  /\ UNCHANGED <<running, state, chosen_speed, level_number, total_score,
                 level_state, ret, idle_ticks, call>>

Next ==
  \/ Quit
  \/ \E key \in Keys : MenuKey(key)
  \/ \E key \in Keys : PlayingKey(key)
  \/ \E key \in Keys : LevelCompleteKey(key)
  \/ \E key \in Keys : GameOverKey(key)
  \/ \E dt \in DtSet : BeginUpdate(dt)
  \/ Tick
  \/ EndUpdate

Spec == Init /\ [][Next]_vars

\* The program when the player presses no key during a level and the window
\* is not closed.  The frames of run_game's `while running` loop keep
\* coming, so the update of a frame is always taken in the end.  On these
\* grids the worm that is never steered hits the wall before it reaches a
\* target, so the level-complete screen has no key to handle.
NextStraight ==
  \/ \E key \in Keys : MenuKey(key)
  \/ \E key \in Keys : GameOverKey(key)
  \/ \E dt \in DtSet : BeginUpdate(dt)
  \/ Tick
  \/ EndUpdate

SpecStraight ==
  /\ Init
  /\ [][NextStraight]_vars
  /\ WF_vars(\E dt \in DtSet : BeginUpdate(dt))
  /\ WF_vars(Tick)
  /\ WF_vars(EndUpdate)

\* ------------------------------------------- specifications of one function
\* Each draws the arguments of one call in its initial states and applies
\* the function once; the locals of run_game stay as constructed.
AllCells == (0..(GRID_HEIGHT - 1)) \X (0..(GRID_WIDTH - 1))
InteriorCells == {p \in AllCells : p[1] \in 1..(GRID_HEIGHT - 2) /\ p[2] \in 1..(GRID_WIDTH - 2)}
BorderSamples == {{}, {<<0, 0>>}, {<<0, 1>>, <<GRID_HEIGHT - 1, GRID_WIDTH - 1>>}}
OccupiedInputs == {s \cup b : s \in SUBSET InteriorCells, b \in BorderSamples}

InitFood ==
  /\ InitGame
  /\ call \in {[fn |-> "random_food", occupied |-> o, result |-> <<>>] :
                 o \in OccupiedInputs}

CallRandomFood ==
  /\ call.fn = "random_food"
  /\ call.result = <<>>
  /\ \E f \in random_food(call.occupied) : call' = [call EXCEPT !.result = <<f>>]
  /\ UNCHANGED gamevars

SpecFood == InitFood /\ [][CallRandomFood]_vars

InitStart ==
  /\ InitGame
  /\ call \in {[fn |-> "start_level", level |-> l, base_speed |-> b, result |-> <<>>] :
                 l \in 1..MaxLevelIndex, b \in SPEED_MIN..SPEED_MAX}

CallStartLevel ==
  /\ call.fn = "start_level"
  /\ call.result = <<>>
  /\ \E ls \in start_level(call.level, call.base_speed) :
       call' = [call EXCEPT !.result = <<ls>>]
  /\ UNCHANGED gamevars

SpecStart == InitStart /\ [][CallStartLevel]_vars

\* LevelStates of the first two ticks of a level: start_level, a key, a move
\* that stays alive, a key.
AfterKey(levels) == {handle_direction_change(l, k) : l \in levels, k \in Keys}
AfterMove(levels) ==
  {r.level : r \in {x \in UNION {move_snake(l) : l \in levels} : x.alive}}
DirectionInputs ==
  LET s0 == start_level(1, DEFAULT_SPEED)
      s1 == AfterKey(s0)
      s2 == AfterKey(AfterMove(s1))
  IN s1 \cup s2

InitDirection ==
  /\ InitGame
  /\ call \in {[fn |-> "handle_direction_change", level |-> l, key |-> k,
                result |-> <<>>] : l \in DirectionInputs, k \in Keys}

CallHandleDirectionChange ==
  /\ call.fn = "handle_direction_change"
  /\ call.result = <<>>
  /\ call' = [call EXCEPT !.result = <<handle_direction_change(call.level, call.key)>>]
  /\ UNCHANGED gamevars

SpecDirection == InitDirection /\ [][CallHandleDirectionChange]_vars

\* ------------------------------------------------------------------ claims
HeadOf(level) == level.snake[Len(level.snake)]
AheadOf(level) ==
  <<HeadOf(level)[1] + level.pending_direction[1],
    HeadOf(level)[2] + level.pending_direction[2]>>
InGrid(p) == 0 <= p[1] /\ p[1] < GRID_HEIGHT /\ 0 <= p[2] /\ p[2] < GRID_WIDTH
Reverse(v) == <<-v[1], -v[2]>>

\* A step of the catch-up loop that calls move_snake.
TickStep == pc = "update" /\ pc' = "update" /\ level_state' # level_state

\* C1: in every reachable LevelState the cells of the worm are pairwise
\* distinct.
C1_WormCellsDistinct ==
  level_state # None =>
    \A i, j \in 1..Len(level_state.snake) :
      i # j => level_state.snake[i] # level_state.snake[j]

\* The worm has grown to seven cells and moves back along its own body.
C1_Witness ==
  /\ level_state # None
  /\ ret.called /\ ret.alive
  /\ Len(level_state.snake) >= 7
  /\ level_state.direction = <<0, -1>>

\* C2: every cell of the worm, the head after an alive move included, lies
\* in the grid: 0 <= row < GRID_HEIGHT and 0 <= col < GRID_WIDTH.
C2_WormInGrid ==
  level_state # None =>
    \A i \in 1..Len(level_state.snake) :
      /\ 0 <= level_state.snake[i][1] /\ level_state.snake[i][1] < GRID_HEIGHT
      /\ 0 <= level_state.snake[i][2] /\ level_state.snake[i][2] < GRID_WIDTH

\* An alive move has put the head in the last row, next to the wall.
C2_Witness ==
  /\ level_state # None
  /\ ret.called /\ ret.alive
  /\ HeadOf(level_state)[1] = GRID_HEIGHT - 1
  /\ level_state.direction = <<1, 0>>

\* C3: move_snake returns not-alive exactly when the cell ahead of the head
\* (head + pending_direction) is outside the grid or is a cell of the worm
\* before the move, the tail cell included; otherwise it returns alive.
C3_CollidedExactly ==
  [][TickStep =>
       (ret'.alive <=>
          /\ InGrid(AheadOf(level_state))
          /\ \A i \in 1..Len(level_state.snake) :
               level_state.snake[i] # AheadOf(level_state))]_vars

\* move_snake has returned not-alive for a move into the tail cell.
C3_Witness ==
  /\ level_state # None
  /\ state = "game_over"
  /\ ret.called /\ ~ret.alive
  /\ AheadOf(level_state) = level_state.snake[1]

\* C4: an alive move onto the food appends the head and keeps the tail
\* (length + 1), adds one to eaten, places a new food off the updated worm
\* and returns ate_food; any other alive move appends the head, removes the
\* tail (same length), leaves eaten and food alone and returns not ate_food.
C4_EatOrSlide ==
  [][(TickStep /\ ret'.alive) =>
       IF AheadOf(level_state) = level_state.food
         THEN /\ level_state'.snake = Append(level_state.snake, AheadOf(level_state))
              /\ Len(level_state'.snake) = Len(level_state.snake) + 1
              /\ level_state'.eaten = level_state.eaten + 1
              /\ LET free == {p \in (1..(GRID_HEIGHT - 2)) \X (1..(GRID_WIDTH - 2)) :
                                \A i \in 1..Len(level_state'.snake) :
                                  level_state'.snake[i] # p}
                 IN IF free = {}
                      THEN level_state'.food = NoFood
                      ELSE level_state'.food \in free
              /\ ret'.ate_food
         ELSE /\ level_state'.snake = Tail(Append(level_state.snake, AheadOf(level_state)))
              /\ Len(level_state'.snake) = Len(level_state.snake)
              /\ level_state'.eaten = level_state.eaten
              /\ level_state'.food = level_state.food
              /\ ~ret'.ate_food]_vars

\* The worm of five cells has eaten the food right ahead: six cells, and a
\* new food off the worm.
C4_Witness ==
  /\ level_state # None
  /\ ret.called /\ ret.alive /\ ret.ate_food
  /\ Len(level_state.snake) = WormLength + 1
  /\ level_state.eaten = 1
  /\ level_state.food # NoFood
  /\ level_state.food \notin Cells(level_state.snake)

\* C5: handle_direction_change with the arrow key opposite to the active
\* direction leaves pending_direction as it is, whatever it is; any other
\* arrow key sets pending_direction to the vector of the key.  Nothing else
\* of the LevelState changes.
C5_ReversalAgainstActive ==
  (call.fn = "handle_direction_change" /\ call.result # <<>>) =>
    LET before == call.level
        after == call.result[1]
    IN /\ after = [before EXCEPT !.pending_direction = after.pending_direction]
       /\ IF call.key \notin ArrowKeys
            THEN after.pending_direction = before.pending_direction
          ELSE IF VECTORS[call.key] = Reverse(before.direction)
            THEN after.pending_direction = before.pending_direction
          ELSE after.pending_direction = VECTORS[call.key]

\* Active right, pending up, key left: the request is rejected although it
\* is no reversal of the pending direction.
C5_Witness ==
  /\ call.fn = "handle_direction_change" /\ call.result # <<>>
  /\ call.key = "K_LEFT"
  /\ call.level.direction = <<0, 1>>
  /\ call.level.pending_direction = <<-1, 0>>
  /\ call.result[1].pending_direction = <<-1, 0>>

\* C6: pending_direction is never the exact opposite of the active
\* direction, so the cell ahead of the head is never the neck cell.
C6_NoReversalQueued ==
  level_state # None =>
    /\ level_state.pending_direction # Reverse(level_state.direction)
    /\ AheadOf(level_state) # level_state.snake[Len(level_state.snake) - 1]

\* While playing, a turn is queued: the pending direction differs from the
\* active one after the worm has already turned once.
C6_Witness ==
  /\ level_state # None
  /\ state = "playing" /\ pc = "events"
  /\ level_state.direction = <<-1, 0>>
  /\ level_state.pending_direction = <<0, -1>>

\* C7: a tick in Playing ends in exactly one of three ways: not alive ->
\* GameOver; alive with eaten >= target or no food available ->
\* LevelComplete; otherwise Playing.  A collided tick never completes the
\* level.
C7_TickOutcome ==
  [][TickStep =>
       /\ state = "playing"
       /\ IF ~ret'.alive
            THEN state' = "game_over"
          ELSE IF level_state'.eaten >= level_state'.target \/ level_state'.food = NoFood
            THEN state' = "level_complete"
          ELSE state' = "playing"
       /\ (~InGrid(AheadOf(level_state)) \/ AheadOf(level_state) \in Cells(level_state.snake))
            => state' = "game_over"]_vars

\* The level is complete because no cell is left for the food, below target.
C7_Witness ==
  /\ level_state # None
  /\ state = "level_complete"
  /\ ret.called /\ ret.alive /\ ret.ate_food
  /\ level_state.food = NoFood
  /\ level_state.eaten < level_state.target

\* C8: start_level(level, base_speed) has speed = min(SPEED_MAX, base_speed
\* + (level - 1) * LEVEL_SPEED_STEP) and target = BASE_TARGET + (level - 1)
\* * TARGET_GROWTH, the target unclamped: (1, 20) -> 20 and 6, (3, 20) ->
\* 30 and 10, (20, 20) -> 100.
C8_SpeedAndTarget ==
  (call.fn = "start_level" /\ call.result # <<>>) =>
    LET l == call.level
        b == call.base_speed
        r == call.result[1]
        s == b + (l - 1) * LEVEL_SPEED_STEP
    IN /\ r.speed = IF s > SPEED_MAX THEN SPEED_MAX ELSE s
       /\ r.target = BASE_TARGET + (l - 1) * TARGET_GROWTH
       /\ (l = 1 /\ b = 20) => (r.speed = 20 /\ r.target = 6)
       /\ (l = 3 /\ b = 20) => (r.speed = 30 /\ r.target = 10)
       /\ (l = 20 /\ b = 20) => (r.speed = 100 /\ r.target = 44)

\* start_level(20, 20): the speed is clamped to 100, the target is 44.
C8_Witness ==
  /\ call.fn = "start_level" /\ call.result # <<>>
  /\ call.level = 20 /\ call.base_speed = 20
  /\ call.result[1].speed = SPEED_MAX
  /\ call.result[1].target > SPEED_MAX \div 3

\* C9: random_food(occupied) returns the sentinel exactly when every
\* strictly interior cell is occupied; otherwise a strictly interior cell
\* that is not occupied, which is the free cell when exactly one is free.
C9_FoodPlacement ==
  (call.fn = "random_food" /\ call.result # <<>>) =>
    LET free == {p \in (1..(GRID_HEIGHT - 2)) \X (1..(GRID_WIDTH - 2)) :
                   p \notin call.occupied}
        f == call.result[1]
    IN /\ (f = NoFood) <=> (free = {})
       /\ free # {} => f \in free
       /\ Cardinality(free) = 1 => free = {f}

\* Exactly one interior cell is free and random_food has returned it.
C9_Witness ==
  /\ call.fn = "random_food" /\ call.result # <<>>
  /\ Cardinality(InteriorCells \ call.occupied) = 1
  /\ call.result[1] \in InteriorCells \ call.occupied

\* C10: in every reachable LevelState the food is the sentinel or a strictly
\* interior cell that no cell of the worm occupies.
C10_FoodOffWorm ==
  level_state # None =>
    \/ level_state.food = NoFood
    \/ /\ level_state.food[1] \in 1..(GRID_HEIGHT - 2)
       /\ level_state.food[2] \in 1..(GRID_WIDTH - 2)
       /\ \A i \in 1..Len(level_state.snake) :
            level_state.snake[i] # level_state.food

\* The worm has just eaten and a new food lies beside its head.
C10_Witness ==
  /\ level_state # None
  /\ ret.called /\ ret.ate_food
  /\ level_state.eaten >= 2
  /\ level_state.food # NoFood
  /\ (level_state.food[1] - HeadOf(level_state)[1]) * (level_state.food[1] - HeadOf(level_state)[1])
       + (level_state.food[2] - HeadOf(level_state)[2]) * (level_state.food[2] - HeadOf(level_state)[2]) = 1

\* A LevelState as start_level builds it for a level index and a base speed:
\* five cells in the centre row, heading right, nothing eaten, no time
\* accumulated, speed and target of the index.
FreshLevel(ls, index, base) ==
  /\ Len(ls.snake) = 5
  /\ \A i \in 1..5 : ls.snake[i][1] = GRID_HEIGHT \div 2
  /\ \A i \in 1..4 : ls.snake[i + 1][2] = ls.snake[i][2] + 1
  /\ ls.direction = <<0, 1>>
  /\ ls.pending_direction = <<0, 1>>
  /\ ls.eaten = 0
  /\ ls.move_accumulator = 0
  /\ ls.speed = (IF base + (index - 1) * LEVEL_SPEED_STEP > SPEED_MAX
                   THEN SPEED_MAX
                   ELSE base + (index - 1) * LEVEL_SPEED_STEP)
  /\ ls.target = BASE_TARGET + (index - 1) * TARGET_GROWTH

\* C11: in LevelComplete, Enter or Space moves to Playing with the level
\* index one higher, the chosen base speed unchanged and a fresh LevelState
\* for the new index; no other key changes the state, the level index or
\* the LevelState.
C11_ContinueToNextLevel ==
  [][/\ (state = "level_complete" /\ pc = "events" /\ pc' = "events") =>
          \/ UNCHANGED <<state, level_number, chosen_speed, level_state>>
          \/ /\ state' = "playing"
             /\ level_number' = level_number + 1
             /\ chosen_speed' = chosen_speed
             /\ FreshLevel(level_state', level_number + 1, chosen_speed)
     /\ \A key \in {"K_RETURN", "K_SPACE"} :
          LevelCompleteKey(key) => (state' = "playing" /\ level_number' = level_number + 1)
     /\ \A key \in Keys \ {"K_RETURN", "K_SPACE"} :
          LevelCompleteKey(key) => UNCHANGED <<state, level_number, level_state>>]_vars

\* Level 2 has just been entered from LevelComplete: fresh worm, score kept.
C11_Witness ==
  /\ state = "playing"
  /\ level_number = 2
  /\ total_score >= 1
  /\ ret = NoRet
  /\ FreshLevel(level_state, 2, chosen_speed)

\* C12 as stated: the game state leaves Playing only by a tick of the
\* catch-up loop (a collision, to GameOver, or a completed level, to
\* LevelComplete); no input event moves Playing to another state.
C12_OnlyTicksLeavePlaying ==
  [][(state = "playing" /\ state' # "playing") =>
       /\ pc = "update"
       /\ state' \in {"game_over", "level_complete"}]_vars

\* C12 as amended: the game state leaves Playing only by a tick of the
\* catch-up loop (to GameOver on a collision, to LevelComplete otherwise)
\* or by the Escape key, which returns to the menu and keeps the
\* LevelState; no other key moves Playing to another state.
C12_TicksOrEscapeLeavePlaying ==
  [][/\ (state = "playing" /\ state' # "playing") =>
          \/ /\ pc = "update"
             /\ state' = IF ret'.alive THEN "level_complete" ELSE "game_over"
          \/ /\ pc = "events"
             /\ state' = "menu"
             /\ level_state' = level_state
             /\ running' = running
     /\ \A key \in Keys \ {"K_ESCAPE"} : PlayingKey(key) => state' = "playing"
     /\ PlayingKey("K_ESCAPE") => state' = "menu"]_vars

\* Escape was pressed in a level before its first tick: the menu, with the
\* LevelState of the abandoned level.
C12_Witness ==
  /\ state = "menu"
  /\ level_state # None
  /\ ret = NoRet
  /\ running

\* C13: at program start, before any key is pressed, the menu shows the
\* starting speed 30.
C13_MenuStartsAtThirty ==
  InitGame => chosen_speed = 30

LevelCreated == state # "playing" /\ state' = "playing"

\* C15: the chosen starting speed is always within SPEED_MIN..SPEED_MAX and
\* changes only by a key handled in the Menu state; every LevelState, when it
\* is created, has chosen_speed <= speed <= SPEED_MAX and speed >= 1, so its
\* move interval 1000/speed divides by a positive number.
C15_SpeedWithinRange ==
  /\ [](chosen_speed \in SPEED_MIN..SPEED_MAX)
  /\ [][/\ chosen_speed' # chosen_speed =>
             /\ state = "menu" /\ state' = "menu" /\ pc = "events"
             /\ chosen_speed' \in {chosen_speed - 1, chosen_speed + 1}
        /\ LevelCreated =>
             /\ level_state' # None
             /\ chosen_speed' <= level_state'.speed
             /\ level_state'.speed <= SPEED_MAX
             /\ level_state'.speed >= 1
             /\ level_state'.move_interval_ms = MsPerSecond]_vars

\* The speed was raised to SPEED_MAX in the menu and a level started at it.
C15_Witness ==
  /\ chosen_speed = SPEED_MAX
  /\ state = "playing"
  /\ level_state # None
  /\ level_state.speed = SPEED_MAX

\* C16: the catch-up loop runs move_snake only while the state is Playing.
\* Once a tick has left Playing, with whatever time remains in the
\* accumulator, no step calls move_snake or changes the LevelState, in that
\* frame or a later one, until a step enters Playing with a fresh LevelState.
C16_LoopStopsAtOutcome ==
  [][/\ TickStep => state = "playing"
     /\ (state # "playing" /\ level_state # None) =>
          \/ level_state' = level_state /\ ret' = ret
          \/ /\ LevelCreated
             /\ pc = "events"
             /\ level_state'.eaten = 0
             /\ level_state'.move_accumulator = 0
             /\ ret' = NoRet]_vars

\* A later frame after the tick that ended the level: the accumulator still
\* holds a whole move interval, and the last move_snake call is the one
\* that ended the level.
C16_Witness ==
  /\ state \in {"game_over", "level_complete"}
  /\ pc = "events"
  /\ ret.called
  /\ level_state.move_accumulator >= level_state.move_interval_ms

\* C17: in a frame spent in Playing the elapsed time is added to the
\* accumulator; move_snake runs only while the accumulator holds a whole
\* interval and each call takes one interval off; the loop is left in Playing
\* only with 0 <= accumulator < interval, so between frames that bound holds.
\* An arrow key sets the pending direction at once, whatever the accumulator
\* holds, and leaves the accumulator alone.  (move_accumulator and
\* move_interval_ms are both in units of 1/speed ms.)
C17_FixedTimestep ==
  /\ []((state = "playing" /\ pc = "events") =>
          /\ 0 <= level_state.move_accumulator
          /\ level_state.move_accumulator < level_state.move_interval_ms)
  /\ [][/\ (state = "playing" /\ pc = "events" /\ pc' = "update") =>
             \E dt \in DtSet :
               level_state' = [level_state EXCEPT
                                 !.move_accumulator = @ + dt * level_state.speed]
        /\ TickStep =>
             /\ level_state.move_accumulator >= level_state.move_interval_ms
             /\ level_state'.move_accumulator =
                  level_state.move_accumulator - level_state.move_interval_ms
             /\ ret'.called
        /\ (state = "playing" /\ pc = "update" /\ pc' # "update") =>
             /\ level_state' = level_state
             /\ 0 <= level_state.move_accumulator
             /\ level_state.move_accumulator < level_state.move_interval_ms
        /\ \A key \in ArrowKeys :
             PlayingKey(key) =>
               /\ level_state'.pending_direction =
                    (IF opposite_direction(level_state.direction, VECTORS[key])
                       THEN level_state.pending_direction
                       ELSE VECTORS[key])
               /\ level_state'.move_accumulator = level_state.move_accumulator
               /\ level_state'.snake = level_state.snake
               /\ level_state'.direction = level_state.direction]_vars

\* Between two frames of Playing: the worm has moved, half an interval is
\* left in the accumulator, and a turn is pending that no move has taken yet.
C17_Witness ==
  /\ state = "playing"
  /\ pc = "events"
  /\ ret.called
  /\ level_state.move_accumulator * 2 = level_state.move_interval_ms
  /\ level_state.pending_direction # level_state.direction

\* C18: a move_snake call that returns not-alive changes nothing of the
\* LevelState: worm, food, eaten counter, active and pending direction are
\* what they were before the call; the tick as a whole differs only by the
\* interval run_game took off the accumulator before the call.
C18_CollisionLeavesLevel ==
  [][(TickStep /\ ~ret'.alive) =>
       /\ level_state'.snake = level_state.snake
       /\ level_state'.food = level_state.food
       /\ level_state'.eaten = level_state.eaten
       /\ level_state'.direction = level_state.direction
       /\ level_state'.pending_direction = level_state.pending_direction
       /\ level_state' = [level_state EXCEPT
                            !.move_accumulator = @ - level_state.move_interval_ms]
       /\ total_score' = total_score]_vars

\* The worm turned into a collision: the turn that killed it is still
\* pending and the active direction is the one of its last move.
C18_Witness ==
  /\ state = "game_over"
  /\ ret.called /\ ~ret.alive
  /\ level_state.pending_direction # level_state.direction
  /\ (wall_collision(new_head(level_state)) \/ self_collision(level_state, new_head(level_state)))

\* C19: in every LevelState the worm is as long as the initial worm plus the
\* food eaten, and eaten never exceeds the target: in Playing eaten < target,
\* and a LevelComplete that did not come from an exhausted board has
\* eaten = target exactly.
C19_LengthAndTarget ==
  level_state # None =>
    /\ Len(level_state.snake) = WormLength + level_state.eaten
    /\ level_state.eaten >= 0
    /\ level_state.eaten <= level_state.target
    /\ state = "playing" => level_state.eaten < level_state.target
    /\ state = "level_complete" =>
         \/ level_state.eaten = level_state.target
         \/ level_state.food = NoFood /\ level_state.eaten < level_state.target

\* A level completed by reaching its target: the worm has grown by the
\* target and food is still on the board.
C19_Witness ==
  /\ state = "level_complete"
  /\ level_state.food # NoFood
  /\ level_state.eaten = level_state.target
  /\ Len(level_state.snake) = WormLength + level_target(level_number)
  /\ ret.alive /\ ret.ate_food

====
